---- MODULE Spec2Model ----
(***************************************************************************)
(* Model of the weather.com client of go-weather/weather (weather.go).     *)
(*                                                                         *)
(* Text is modelled at the level of characters: a string is a sequence of  *)
(* one-character strings, so that formatting, escaping and URL parsing are *)
(* computed and not assumed.  A float64 coordinate is a dyadic rational    *)
(* sign * (ip + fr/128) or one of NaN, +Inf, -Inf; every such value is an  *)
(* exact float64 and has an exact decimal expansion of 7 fractional        *)
(* digits, so the rounding of fmt's %f is computed exactly.                *)
(***************************************************************************)
EXTENDS Integers, Sequences, FiniteSets, TLC

VARIABLES api_key, calls

vars == <<api_key, calls>>

(***************************************************************************)
(* Bounds of the model.                                                    *)
(***************************************************************************)
\* longest API key given to NewClient
MaxKeyLen == 1
\* longest unit code given to a call
MaxUnitsLen == 1
\* longest "forecasts" array of a response body
MaxForecasts == 2

(***************************************************************************)
(* Characters and strings.                                                 *)
(***************************************************************************)
Lower == {"a","b","c","d","e","f","g","h","i","j","k","l","m",
          "n","o","p","q","r","s","t","u","v","w","x","y","z"}
Upper == {"A","B","C","D","E","F","G","H","I","J","K","L","M",
          "N","O","P","Q","R","S","T","U","V","W","X","Y","Z"}
Digit == {"0","1","2","3","4","5","6","7","8","9"}
HexDigit == Digit \cup {"A","B","C","D","E","F","a","b","c","d","e","f"}

\* the strings over S of length at most n
StrUpTo(S, n) == UNION {[1..k -> S] : k \in 0..n}

RECURSIVE Concat(_)
\* the concatenation of a sequence of strings
Concat(ss) == IF ss = <<>> THEN <<>> ELSE Head(ss) \o Concat(Tail(ss))

StartsWith(s, pre) ==
  /\ Len(s) >= Len(pre)
  /\ SubSeq(s, 1, Len(pre)) = pre

\* the characters keys and unit codes are drawn from
KeyChars == {"k", "&", "=", "+", "#", "?", "/", "%", " "}
UnitChars == {"e", "a", "&", "+", "/", "%", " "}

(***************************************************************************)
(* fmt.Sprintf's %f verb on a float64.                                     *)
(***************************************************************************)
Fin(neg, ip, fr) == [kind |-> "fin", neg |-> neg, ip |-> ip, fr |-> fr]
NaN == [kind |-> "nan", neg |-> FALSE, ip |-> 0, fr |-> 0]
Inf(neg) == [kind |-> "inf", neg |-> neg, ip |-> 0, fr |-> 0]

DigitChar(d) == <<"0","1","2","3","4","5","6","7","8","9">>[d + 1]

RECURSIVE Digits(_)
\* the decimal digits of a natural number, without leading zeros
Digits(n) == IF n < 10 THEN <<DigitChar(n)>>
             ELSE Digits(n \div 10) \o <<DigitChar(n % 10)>>

\* n < 10^6 as exactly six digits
Pad6(n) == LET d == Digits(n)
           IN  [i \in 1..(6 - Len(d)) |-> "0"] \o d

\* fr/128 rounded to six decimal places, half to even (fr/128 = fr*78125/10^7)
Round6(fr) == LET n7 == fr * 78125
                  q == n7 \div 10
                  r == n7 % 10
              IN  IF r > 5 \/ (r = 5 /\ q % 2 = 1) THEN q + 1 ELSE q

RECURSIVE StripZeros(_)
\* s without its trailing "0" characters
StripZeros(s) ==
  IF s # <<>> /\ s[Len(s)] = "0" THEN StripZeros(SubSeq(s, 1, Len(s) - 1)) ELSE s

SprintfFMutShortest(f) ==
  CASE f.kind = "nan" -> <<"N","a","N">>
    [] f.kind = "inf" -> IF f.neg THEN <<"-","I","n","f">> ELSE <<"+","I","n","f">>
    [] OTHER -> LET frac == StripZeros(Pad6(Round6(f.fr)))
                IN  (IF f.neg THEN <<"-">> ELSE <<>>) \o Digits(f.ip)
                    \o (IF frac = <<>> THEN <<>> ELSE <<".">> \o frac)

\* %f: precision 6, never an exponent; NaN and the infinities by name
SprintfF(f) ==
  CASE f.kind = "nan" -> <<"N","a","N">>
    [] f.kind = "inf" -> IF f.neg THEN <<"-","I","n","f">> ELSE <<"+","I","n","f">>
    [] OTHER -> (IF f.neg THEN <<"-">> ELSE <<>>)
                \o Digits(f.ip) \o <<".">> \o Pad6(Round6(f.fr))

(***************************************************************************)
(* url.PathEscape.                                                         *)
(***************************************************************************)
Unreserved == Lower \cup Upper \cup Digit \cup {"-", "_", ".", "~"}
\* reserved characters that a path segment keeps as they are
SegmentKept == {"$", "&", "+", ":", "=", "@"}

\* the two hexadecimal digits of a character's byte
HexOf(c) ==
  CASE c = " " -> <<"2","0">>
    [] c = "#" -> <<"2","3">>
    [] c = "$" -> <<"2","4">>
    [] c = "%" -> <<"2","5">>
    [] c = "&" -> <<"2","6">>
    [] c = "+" -> <<"2","B">>
    [] c = "," -> <<"2","C">>
    [] c = "/" -> <<"2","F">>
    [] c = ":" -> <<"3","A">>
    [] c = ";" -> <<"3","B">>
    [] c = "=" -> <<"3","D">>
    [] c = "?" -> <<"3","F">>
    [] c = "@" -> <<"4","0">>

shouldEscape(c) == c \notin (Unreserved \cup SegmentKept)

RECURSIVE PathEscape(_)
PathEscape(s) ==
  IF s = <<>> THEN <<>>
  ELSE (IF shouldEscape(Head(s)) THEN <<"%">> \o HexOf(Head(s)) ELSE <<Head(s)>>)
       \o PathEscape(Tail(s))

(***************************************************************************)
(* Client.make_api_url.                                                    *)
(***************************************************************************)
UrlBase == <<"h","t","t","p","s",":","/","/","a","p","i",".","w","e","a","t","h",
             "e","r",".","c","o","m","/","v","1","/","g","e","o","c","o","d","e","/">>
UrlJsonKey == <<".","j","s","o","n","?","a","p","i","K","e","y","=">>
UrlUnits == <<"&","u","n","i","t","s","=">>
UnitsE == <<"e">>
UnitsA == <<"a">>

DefaultUnitsMutA(units) == IF units = <<>> THEN UnitsA ELSE units
DefaultUnitsMutNone(units) == units
\* if units == "" { units = "e" }
DefaultUnits(units) == IF units = <<>> THEN UnitsE ELSE units

make_api_urlMutSwap(key, lat, lng, path_fragment, units) ==
  Concat(<<UrlBase, SprintfF(lng), <<"/">>, SprintfF(lat), <<"/">>, path_fragment,
           UrlJsonKey, PathEscape(key), UrlUnits, PathEscape(DefaultUnits(units))>>)
make_api_url(key, lat, lng, path_fragment, units) ==
  Concat(<<UrlBase, SprintfF(lat), <<"/">>, SprintfF(lng), <<"/">>, path_fragment,
           UrlJsonKey, PathEscape(key), UrlUnits, PathEscape(DefaultUnits(units))>>)

(***************************************************************************)
(* JSON values (what a response body parses to) and the Go types that      *)
(* encoding/json decodes them into.  Of every struct of weather.go the     *)
(* model keeps the fields named here, one or more of each kind the struct  *)
(* has: string, int, pointer to scalar, pointer to struct, nested struct   *)
(* and slice of struct.  A Go pointer is a sequence of length 0 (nil) or   *)
(* 1; a slice is nil or a sequence of elements.                            *)
(***************************************************************************)
JNull == [t |-> "null"]
JNum(n) == [t |-> "num", n |-> n]
JStr(s) == [t |-> "str", s |-> s]
JObj(m) == [t |-> "obj", m |-> m]
JArr(a) == [t |-> "arr", a |-> a]
\* a body that is no JSON text, and the body of no bytes
Garbage == [t |-> "garbage"]
EmptyBody == [t |-> "empty"]
NoFields == [k \in {} |-> JNull]

TInt == [k |-> "int"]
TString == [k |-> "string"]
TPtr(e) == [k |-> "ptr", e |-> e]
TSlice(e) == [k |-> "slice", e |-> e]
TStruct(f) == [k |-> "struct", f |-> f]

Metadata == TStruct([units |-> TString, status_code |-> TInt])
DaypartForecast == TStruct([num |-> TInt, day_ind |-> TString])
Forecast10 == TStruct([class |-> TString, num |-> TInt, max_temp |-> TPtr(TInt),
                       min_temp |-> TInt, night |-> DaypartForecast,
                       day |-> TPtr(DaypartForecast)])
Forecast10Response == TStruct([metadata |-> Metadata, forecasts |-> TSlice(Forecast10)])
HourlyForecast == TStruct([class |-> TString, hi |-> TInt])
HourlyForecastResponse ==
  TStruct([metadata |-> Metadata, forecasts |-> TSlice(HourlyForecast)])
Wwir == TStruct([class |-> TString, precip_time_iso |-> TPtr(TString)])
WwirResponse == TStruct([metadata |-> Metadata, forecast |-> Wwir])
UnitObservation == TStruct([temp |-> TInt, gust |-> TPtr(TInt)])
Observation == TStruct([class |-> TString,
                        imperial |-> TPtr(UnitObservation),
                        metric |-> TPtr(UnitObservation),
                        metric_si |-> TPtr(UnitObservation),
                        uk_hybrid |-> TPtr(UnitObservation)])
CurrentResponse == TStruct([metadata |-> Metadata, observation |-> Observation])

NilSlice == [isnil |-> TRUE, elems |-> <<>>]

RECURSIVE ZeroMutAlloc(_)
ZeroMutAlloc(T) ==
  CASE T.k = "int" -> 0
    [] T.k = "string" -> ""
    [] T.k = "ptr" -> <<ZeroMutAlloc(T.e)>>
    [] T.k = "slice" -> NilSlice
    [] T.k = "struct" -> [f \in DOMAIN T.f |-> ZeroMutAlloc(T.f[f])]

RECURSIVE Zero(_)
\* the zero value of a Go type: what "var payload T" holds
Zero(T) ==
  CASE T.k = "int" -> 0
    [] T.k = "string" -> ""
    [] T.k = "ptr" -> <<>>
    [] T.k = "slice" -> NilSlice
    [] T.k = "struct" -> [f \in DOMAIN T.f |-> Zero(T.f[f])]

UnknownKeyIsErrorMutStrict(T, key) == key \notin DOMAIN T.f
\* whether an object key that T has no field for fails the decoding: the
\* decoder is used as json.NewDecoder returns it, DisallowUnknownFields unset
UnknownKeyIsError(T, key) == FALSE

RECURSIVE Unmarshal(_, _)
\* json.Unmarshal of the JSON value j into a zero value of type T: the value
\* stored, and whether an UnmarshalTypeError was met.  A mismatch skips the
\* field and decoding goes on; null leaves a scalar or a struct as it was and
\* makes a pointer or a slice nil; keys no field is tagged with are skipped.
Unmarshal(T, j) ==
  IF j.t = "null" THEN [v |-> Zero(T), err |-> FALSE]
  ELSE CASE T.k = "int" ->
              IF j.t = "num" THEN [v |-> j.n, err |-> FALSE]
              ELSE [v |-> 0, err |-> TRUE]
         [] T.k = "string" ->
              IF j.t = "str" THEN [v |-> j.s, err |-> FALSE]
              ELSE [v |-> "", err |-> TRUE]
         [] T.k = "ptr" ->
              LET r == Unmarshal(T.e, j)
              IN  [v |-> <<r.v>>, err |-> r.err]
         [] T.k = "slice" ->
              IF j.t = "arr"
              THEN LET rs == [i \in 1..Len(j.a) |-> Unmarshal(T.e, j.a[i])]
                   IN  [v |-> [isnil |-> FALSE,
                               elems |-> [i \in 1..Len(j.a) |-> rs[i].v]],
                        err |-> \E i \in 1..Len(j.a) : rs[i].err]
              ELSE [v |-> NilSlice, err |-> TRUE]
         [] T.k = "struct" ->
              IF j.t = "obj"
              THEN LET rs == [f \in DOMAIN T.f |->
                                IF f \in DOMAIN j.m THEN Unmarshal(T.f[f], j.m[f])
                                ELSE [v |-> Zero(T.f[f]), err |-> FALSE]]
                   IN  [v |-> [f \in DOMAIN T.f |-> rs[f].v],
                        err |-> \/ \E f \in DOMAIN T.f : rs[f].err
                                \/ \E key \in DOMAIN j.m : UnknownKeyIsError(T, key)]
              ELSE [v |-> Zero(T), err |-> TRUE]

ErrEOF == <<"E","O","F">>
ErrSyntax == <<"i","n","v","a","l","i","d"," ","c","h","a","r","a","c","t","e","r">>
ErrType == <<"j","s","o","n",":"," ","c","a","n","n","o","t"," ",
             "u","n","m","a","r","s","h","a","l">>

\* json.NewDecoder(res.Body).Decode(payload) on a fresh payload of type T: the
\* value left in the payload and the error (<<>> is nil, <<text>> an error)
Decode(T, body) ==
  CASE body.t = "empty" -> [v |-> Zero(T), err |-> <<ErrEOF>>]
    [] body.t = "garbage" -> [v |-> Zero(T), err |-> <<ErrSyntax>>]
    [] OTHER -> LET r == Unmarshal(T, body)
                IN  [v |-> r.v, err |-> IF r.err THEN <<ErrType>> ELSE <<>>]

RECURSIVE MarshalMutOmitEmpty(_, _)
MarshalMutOmitEmpty(T, v) ==
  CASE T.k = "int" -> JNum(v)
    [] T.k = "string" -> JStr(v)
    [] T.k = "ptr" -> IF v = <<>> THEN JNull ELSE MarshalMutOmitEmpty(T.e, v[1])
    [] T.k = "slice" ->
         IF v.isnil THEN JNull
         ELSE JArr([i \in 1..Len(v.elems) |-> MarshalMutOmitEmpty(T.e, v.elems[i])])
    [] T.k = "struct" ->
         JObj([f \in {g \in DOMAIN T.f :
                        CASE T.f[g].k = "int" -> v[g] # 0
                          [] T.f[g].k = "string" -> v[g] # ""
                          [] T.f[g].k = "ptr" -> v[g] # <<>>
                          [] T.f[g].k = "slice" -> v[g].elems # <<>>
                          [] T.f[g].k = "struct" -> TRUE} |->
                 MarshalMutOmitEmpty(T.f[f], v[f])])

RECURSIVE Marshal(_, _)
\* json.Marshal of a value v of type T, as the struct tags direct it: every
\* field is written under its tag's key (no tag says omitempty), a nil pointer
\* and a nil slice as null, a non-nil slice as an array, empty or not
Marshal(T, v) ==
  CASE T.k = "int" -> JNum(v)
    [] T.k = "string" -> JStr(v)
    [] T.k = "ptr" -> IF v = <<>> THEN JNull ELSE Marshal(T.e, v[1])
    [] T.k = "slice" ->
         IF v.isnil THEN JNull
         ELSE JArr([i \in 1..Len(v.elems) |-> Marshal(T.e, v.elems[i])])
    [] T.k = "struct" -> JObj([f \in DOMAIN T.f |-> Marshal(T.f[f], v[f])])

(***************************************************************************)
(* net/url's parse of the request URL, as http.NewRequest runs it: the     *)
(* fragment is cut at the first "#", the query at the first "?", and a "%" *)
(* of the path or the fragment that two hexadecimal digits do not follow   *)
(* fails the parse.                                                        *)
(***************************************************************************)
\* the index of the first occurrence of character c in s, 0 when there is none
IndexOf(s, c) ==
  IF \E i \in 1..Len(s) : s[i] = c
  THEN CHOOSE i \in 1..Len(s) : s[i] = c /\ \A j \in 1..(i - 1) : s[j] # c
  ELSE 0

Before(s, c) == IF IndexOf(s, c) = 0 THEN s ELSE SubSeq(s, 1, IndexOf(s, c) - 1)
After(s, c) == IF IndexOf(s, c) = 0 THEN <<>> ELSE SubSeq(s, IndexOf(s, c) + 1, Len(s))

ValidEscapes(s) ==
  \A i \in 1..Len(s) :
    s[i] = "%" => /\ i + 2 <= Len(s)
                  /\ s[i + 1] \in HexDigit
                  /\ s[i + 2] \in HexDigit

ParseOK(url) ==
  /\ ValidEscapes(Before(Before(url, "#"), "?"))
  /\ ValidEscapes(After(url, "#"))

ErrParse == <<"p","a","r","s","e">>
ErrRedirects == <<"s","t","o","p","p","e","d"," ","a","f","t","e","r"," ",
                  "1","0"," ","r","e","d","i","r","e","c","t","s">>

(***************************************************************************)
(* Client.make_api_request and the doGet methods, as operators.            *)
(***************************************************************************)
PrefixSend == <<"C","o","u","l","d"," ","n","o","t"," ","s","e","n","d"," ",
                "r","e","q","u","e","s","t",":"," ">>
PrefixRead == <<"C","o","u","l","d"," ","n","o","t"," ","r","e","a","d"," ",
                "r","e","s","p","o","n","s","e",":"," ">>
PrefixDecode == <<"C","o","u","l","d"," ","n","o","t"," ","d","e","c","o","d","e",":"," ">>

\* errors.New("Could not send request: " + err.Error())
ErrSend(cause) == PrefixSend \o cause
ErrReadMutDecode(cause) == PrefixDecode \o cause
\* errors.New("Could not read response: " + err.Error())
ErrRead(cause) == PrefixRead \o cause
\* errors.New("Could not decode: " + err.Error())
ErrDecode(cause) == PrefixDecode \o cause

TransportFailPcMutDecode == "decode"
TransportFailPcMutRetry == "send"
\* where make_api_request goes when c.http_client.Do fails: it returns
TransportFailPc == "ret"

DecodeResponseMutStatus(T, res) ==
  IF res.status >= 400 THEN [v |-> Zero(T), err |-> <<ErrEOF>>]
  ELSE Decode(T, res.body)
\* dec := json.NewDecoder(res.Body); err = dec.Decode(payload): of the
\* response only the body is read
DecodeResponse(T, res) == Decode(T, res.body)

doGetResultMutPartial(payload, err) == [resp |-> payload, err |-> err]
\* if err != nil { return nil, err }; return &payload, nil
doGetResult(payload, err) ==
  IF err # <<>> THEN [resp |-> <<>>, err |-> err]
  ELSE [resp |-> payload, err |-> <<>>]

PayloadTypeMutHourly(doget) ==
  CASE doget = "doGetForecast10" -> HourlyForecastResponse
    [] doget = "doGetHourlyForecast" -> HourlyForecastResponse
    [] doget = "doGetCurrent" -> CurrentResponse
    [] doget = "doGetWwir" -> WwirResponse
\* the type of the payload each doGet method declares
PayloadType(doget) ==
  CASE doget = "doGetForecast10" -> Forecast10Response
    [] doget = "doGetHourlyForecast" -> HourlyForecastResponse
    [] doget = "doGetCurrent" -> CurrentResponse
    [] doget = "doGetWwir" -> WwirResponse

(***************************************************************************)
(* State.  api_key is the Client's key; calls[p] is the call that caller p *)
(* has in progress on the Client:                                          *)
(*   pc       idle, construct, send, wait, decode, ret, done               *)
(*   payload  <<>> before the doGet method declares it, then <<value>>     *)
(*   sent     how many times http_client.Do was entered                    *)
(*   gets     how many GET requests the client has put on the wire         *)
(*   res      <<>> or <<the response Do returned>>                         *)
(*   open     whether res.Body is open; closes counts res.Body.Close()     *)
(*   stage    the stage that failed: none, construct, transport, decode    *)
(*   err      what make_api_request returns: <<>> is nil, <<text>> an error*)
(*   resp, rerr   what the doGet method, and so the public method, returns *)
(***************************************************************************)
Procs == {"p1", "p2"}

Idle == [pc |-> "idle", method |-> "none", doget |-> "none",
         lat |-> Fin(FALSE, 0, 0), lng |-> Fin(FALSE, 0, 0), units |-> <<>>,
         url |-> <<>>, payload |-> <<>>, sent |-> 0, gets |-> 0, res |-> <<>>,
         open |-> FALSE, closes |-> 0, stage |-> "none", err |-> <<>>,
         resp |-> <<>>, rerr |-> <<>>]

\* NewClient(api_key)
NewClient(key) ==
  /\ api_key = key
  /\ calls = [p \in Procs |-> Idle]

\* the call record once a public method has run url := c.make_api_url(lat,
\* lng, fragment, units) and entered its doGet method, which declares the payload
Started(method, fragment, doget, key, lat, lng, units) ==
  [Idle EXCEPT !.pc = "construct", !.method = method, !.doget = doget,
               !.lat = lat, !.lng = lng, !.units = units,
               !.url = make_api_url(key, lat, lng, fragment, units),
               !.payload = <<Zero(PayloadType(doget))>>]

GetForecast10ByLocation(p, lat, lng, units) ==
  /\ calls[p].pc = "idle"
  /\ calls' = [calls EXCEPT ![p] =
       Started("GetForecast10ByLocation",
               <<"f","o","r","e","c","a","s","t","/","d","a","i","l","y","/",
                 "1","0","d","a","y">>,
               "doGetForecast10", api_key, lat, lng, units)]
  /\ UNCHANGED api_key

GetHourlyForecast240ByLocation(p, lat, lng, units) ==
  /\ calls[p].pc = "idle"
  /\ calls' = [calls EXCEPT ![p] =
       Started("GetHourlyForecast240ByLocation",
               <<"f","o","r","e","c","a","s","t","/","h","o","u","r","l","y","/",
                 "2","4","0","h","o","u","r">>,
               "doGetHourlyForecast", api_key, lat, lng, units)]
  /\ UNCHANGED api_key

GetCurrentByLocation(p, lat, lng, units) ==
  /\ calls[p].pc = "idle"
  /\ calls' = [calls EXCEPT ![p] =
       Started("GetCurrentByLocation",
               <<"o","b","s","e","r","v","a","t","i","o","n","s","/",
                 "c","u","r","r","e","n","t">>,
               "doGetCurrent", api_key, lat, lng, units)]
  /\ UNCHANGED api_key

GetWwirByLocation(p, lat, lng, units) ==
  /\ calls[p].pc = "idle"
  /\ calls' = [calls EXCEPT ![p] =
       Started("GetWwirByLocation",
               <<"f","o","r","e","c","a","s","t","/","w","w","i","r">>,
               "doGetWwir", api_key, lat, lng, units)]
  /\ UNCHANGED api_key

\* req, err := http.NewRequest("GET", url, nil)
NewRequest(p) ==
  /\ calls[p].pc = "construct"
  /\ calls' = [calls EXCEPT ![p] =
       IF ParseOK(@.url)
       THEN [@ EXCEPT !.pc = "send"]
       ELSE [@ EXCEPT !.pc = "ret", !.stage = "construct",
                      !.err = <<ErrSend(ErrParse)>>]]
  /\ UNCHANGED api_key

\* res, err := c.http_client.Do(req): the request goes out
Do(p) ==
  /\ calls[p].pc = "send"
  /\ calls' = [calls EXCEPT ![p] =
       [@ EXCEPT !.pc = "wait", !.sent = @ + 1, !.gets = @ + 1]]
  /\ UNCHANGED api_key

\* inside Do: the answer is a redirect (a 3xx status with a Location). The
\* client is the http.Client{} of NewClient, whose CheckRedirect is nil, so
\* it follows the redirect with another GET, up to 10 requests in all
Redirect(p) ==
  /\ calls[p].pc = "wait"
  /\ calls[p].gets < 10
  /\ calls' = [calls EXCEPT ![p] = [@ EXCEPT !.gets = @ + 1]]
  /\ UNCHANGED api_key

\* inside Do: the tenth request is answered by a redirect too, and Do
\* returns the error of the default redirect policy
TooManyRedirects(p) ==
  /\ calls[p].pc = "wait"
  /\ calls[p].gets = 10
  /\ calls' = [calls EXCEPT ![p] =
       [@ EXCEPT !.pc = TransportFailPc, !.stage = "transport",
                 !.err = <<ErrRead(ErrRedirects)>>]]
  /\ UNCHANGED api_key

\* Do returns an error
TransportFail(p, cause) ==
  /\ calls[p].pc = "wait"
  /\ calls' = [calls EXCEPT ![p] =
       [@ EXCEPT !.pc = TransportFailPc, !.stage = "transport",
                 !.err = <<ErrRead(cause)>>]]
  /\ UNCHANGED api_key

\* Do returns a response that is no redirect it follows: any status, any body
Respond(p, status, body) ==
  /\ calls[p].pc = "wait"
  /\ calls' = [calls EXCEPT ![p] =
       [@ EXCEPT !.pc = "decode", !.open = TRUE,
                 !.res = <<[status |-> status, body |-> body]>>]]
  /\ UNCHANGED api_key

PayloadOfMutShared(p) == "p1"
\* whose payload a call decodes into and returns: its own, "var payload" being
\* a local of each doGet method
PayloadOf(p) == p

DeferredCloseMutOnSuccess(err) == err = <<>>
\* whether res.Body.Close() runs when make_api_request returns after a decode
\* that ended with err: it is deferred before the decode, so it runs always
DeferredClose(err) == TRUE

\* defer res.Body.Close(); the decoding of the body into the payload; the
\* return of make_api_request, at which the deferred Close runs
DecodeBody(p) ==
  /\ calls[p].pc = "decode"
  /\ LET r == DecodeResponse(PayloadType(calls[p].doget), calls[p].res[1])
         closed == DeferredClose(r.err)
     IN  calls' = [calls EXCEPT
           ![PayloadOf(p)].payload = <<r.v>>,
           ![p].pc = "ret",
           ![p].open = ~closed,
           ![p].closes = IF closed THEN @ + 1 ELSE @,
           ![p].stage = IF r.err = <<>> THEN "none" ELSE "decode",
           ![p].err = IF r.err = <<>> THEN <<>> ELSE <<ErrDecode(r.err[1])>>]
  /\ UNCHANGED api_key

\* the doGet method returns, and the public method returns what it returns
doGetReturn(p) ==
  /\ calls[p].pc = "ret"
  /\ LET r == doGetResult(calls[PayloadOf(p)].payload, calls[p].err)
     IN  calls' = [calls EXCEPT ![p] =
           [@ EXCEPT !.pc = "done", !.resp = r.resp, !.rerr = r.err]]
  /\ UNCHANGED api_key

\* the caller has taken the result and may call again
Finish(p) ==
  /\ calls[p].pc = "done"
  /\ calls' = [calls EXCEPT ![p] = Idle]
  /\ UNCHANGED api_key

(***************************************************************************)
(* The inputs: what callers pass and what the upstream may answer.         *)
(***************************************************************************)
UnitCodes == {<<>>, <<"e">>, <<"m">>, <<"s">>, <<"h">>, <<"a">>}
\* 40.7578125, -74.0078125 (a tie at the sixth decimal), -0.0234375 (a tie
\* that rounds up), 0, -0
Lats == {Fin(FALSE, 40, 97), Fin(TRUE, 0, 3), Fin(FALSE, 0, 0)}
Lngs == {Fin(TRUE, 74, 1), Fin(TRUE, 0, 0)}
Keys == StrUpTo(KeyChars, MaxKeyLen)
Units == UnitCodes \cup StrUpTo(UnitChars, MaxUnitsLen)

HttpStatus == {200, 404, 500}
TransportCauses == {<<"d","i","a","l">>, <<"t","i","m","e","o","u","t">>}

Blocks == {"imperial", "metric", "metric_si", "uk_hybrid"}

Meta(n) == JObj([status_code |-> JNum(n), units |-> JStr("e")])
UnitObs == JObj([temp |-> JNum(70), gust |-> JNull])
UnitObsGust == JObj([temp |-> JNum(21), gust |-> JNum(5), wspd |-> JNum(3)])
Obs(S) == JObj([k \in {"class"} \cup S |->
                  IF k = "class" THEN JStr("observation") ELSE UnitObs])

\* bodies any endpoint may get: no bytes, no JSON, null, {}, an array, unknown
\* keys, a metadata envelope alone, and one with a value of the wrong type
CommonBodies ==
  {EmptyBody, Garbage, JNull, JObj(NoFields), JArr(<<>>),
   JObj([extra |-> JNum(1)]),
   JObj([metadata |-> Meta(404)]),
   JObj([metadata |-> JObj([status_code |-> JNum(200), extra |-> JNull])]),
   JObj([metadata |-> JObj([status_code |-> JStr("200")])])}

CurrentBodies ==
  CommonBodies
  \cup {JObj([metadata |-> Meta(200), observation |-> Obs(S)]) : S \in SUBSET Blocks}
  \cup {JObj([observation |-> JObj([imperial |-> JNull, metric |-> UnitObsGust,
                                    extra |-> JStr("x")])]),
        JObj([observation |-> JObj([class |-> JStr("observation"),
                                    imperial |-> JNum(1), metric |-> UnitObs])])}

NightObj == JObj([num |-> JNum(1), day_ind |-> JStr("N")])
DayObj == JObj([num |-> JNum(2), day_ind |-> JStr("D")])
Forecast10Elems ==
  {JObj([class |-> JStr("fod_long_range_daily"), num |-> JNum(1),
         max_temp |-> JNull, min_temp |-> JNum(60), night |-> NightObj]),
   JObj([class |-> JStr("fod_long_range_daily"), num |-> JNum(2),
         max_temp |-> JNum(80), min_temp |-> JNum(61), night |-> NightObj,
         day |-> DayObj, qpf |-> JNum(0)]),
   JObj([class |-> JStr("other")])}
Forecast10Bodies ==
  CommonBodies
  \cup {JObj([metadata |-> Meta(200), forecasts |-> JArr(a)]) :
          a \in StrUpTo(Forecast10Elems, MaxForecasts)}
  \cup {JObj([forecasts |-> JNull]), JObj([forecasts |-> JObj(NoFields)])}

HourlyElems ==
  {JObj([class |-> JStr("fod_short_range_hourly"), hi |-> JNum(76)]),
   JObj([class |-> JStr("fod_long_range_hourly"), hi |-> JStr("76")])}
HourlyBodies ==
  CommonBodies
  \cup {JObj([metadata |-> Meta(200), forecasts |-> JArr(a)]) :
          a \in StrUpTo(HourlyElems, MaxForecasts)}

WwirBodies ==
  CommonBodies
  \cup {JObj([metadata |-> Meta(200),
              forecast |-> JObj([class |-> JStr("fod_short_range_wwir"),
                                 precip_time_iso |-> JNull])]),
        JObj([metadata |-> Meta(200),
              forecast |-> JObj([class |-> JStr("fod_short_range_wwir"),
                                 precip_time_iso |-> JStr("2018-07-18T07:00:00-0400"),
                                 phrase |-> JStr("x")])])}

\* the bodies the upstream may answer a doGet method with
Bodies(doget) ==
  CASE doget = "doGetForecast10" -> Forecast10Bodies
    [] doget = "doGetHourlyForecast" -> HourlyBodies
    [] doget = "doGetCurrent" -> CurrentBodies
    [] doget = "doGetWwir" -> WwirBodies
    [] OTHER -> {}

(***************************************************************************)
(* Spec: one caller, the whole call, unit codes of the documented set.     *)
(***************************************************************************)
Init == NewClient(<<"k">>)

Next ==
  \E p \in {"p1"} :
    \/ \E lat \in {Fin(FALSE, 40, 97)}, lng \in {Fin(TRUE, 74, 1)}, units \in UnitCodes :
         \/ GetForecast10ByLocation(p, lat, lng, units)
         \/ GetHourlyForecast240ByLocation(p, lat, lng, units)
         \/ GetCurrentByLocation(p, lat, lng, units)
         \/ GetWwirByLocation(p, lat, lng, units)
    \/ NewRequest(p)
    \/ Do(p)
    \/ Redirect(p)
    \/ TooManyRedirects(p)
    \/ \E cause \in TransportCauses : TransportFail(p, cause)
    \/ \E status \in HttpStatus, body \in Bodies(calls[p].doget) :
         Respond(p, status, body)
    \/ DecodeBody(p)
    \/ doGetReturn(p)
    \/ Finish(p)

Spec == Init /\ [][Next]_vars

(***************************************************************************)
(* SpecUrl: the URL each public method builds, for every key, coordinate   *)
(* pair and unit code of the bounded sets.                                 *)
(***************************************************************************)
InitUrl == \E key \in Keys : NewClient(key)

NextUrl ==
  \E lat \in Lats, lng \in Lngs, units \in Units :
    \/ GetForecast10ByLocation("p1", lat, lng, units)
    \/ GetHourlyForecast240ByLocation("p1", lat, lng, units)
    \/ GetCurrentByLocation("p1", lat, lng, units)
    \/ GetWwirByLocation("p1", lat, lng, units)

SpecUrl == InitUrl /\ [][NextUrl]_vars

(***************************************************************************)
(* SpecConc: two callers share one Client and call it concurrently, their  *)
(* steps interleaved in every order.  The calls differ in coordinates,     *)
(* unit code and answer; redirects, which stay inside Do, are left to Spec.*)
(***************************************************************************)
ConcBodies(doget) ==
  CASE doget = "doGetForecast10" ->
         {JObj(NoFields),
          JObj([metadata |-> Meta(200),
                forecasts |-> JArr(<<JObj([class |-> JStr("fod_long_range_daily"),
                                           num |-> JNum(1)])>>)])}
    [] doget = "doGetCurrent" ->
         {Garbage, JObj([metadata |-> Meta(200), observation |-> Obs({"metric"})])}
    [] OTHER -> {}

NextConc ==
  \E p \in Procs :
    \/ \E lat \in {Fin(FALSE, 40, 97), Fin(TRUE, 0, 3)}, lng \in {Fin(TRUE, 74, 1)},
          units \in {<<>>, <<"m">>} :
         \/ GetForecast10ByLocation(p, lat, lng, units)
         \/ GetCurrentByLocation(p, lat, lng, units)
    \/ NewRequest(p)
    \/ Do(p)
    \/ \E cause \in {<<"d","i","a","l">>} : TransportFail(p, cause)
    \/ \E body \in ConcBodies(calls[p].doget) : Respond(p, 200, body)
    \/ DecodeBody(p)
    \/ doGetReturn(p)
    \/ Finish(p)

SpecConc == Init /\ [][NextConc]_vars

(***************************************************************************)
(* SpecCoord: the URL each public method builds, for coordinates of every  *)
(* kind a float64 can be: of either sign, zero and negative zero, of large *)
(* magnitude, ties at the sixth decimal, NaN and the infinities.           *)
(***************************************************************************)
\* 40.7578125, -74.0078125, -0.0234375, 0, -0, 123456789.5, -2000000000,
\* 0.9921875, NaN, +Inf, -Inf
Coords ==
  {Fin(FALSE, 40, 97), Fin(TRUE, 74, 1), Fin(TRUE, 0, 3), Fin(FALSE, 0, 0),
   Fin(TRUE, 0, 0), Fin(FALSE, 123456789, 64), Fin(TRUE, 2000000000, 0),
   Fin(FALSE, 0, 127), NaN, Inf(FALSE), Inf(TRUE)}

NextCoord ==
  \E lat \in Coords, lng \in Coords, units \in {<<>>, <<"m">>} :
    \/ GetForecast10ByLocation("p1", lat, lng, units)
    \/ GetHourlyForecast240ByLocation("p1", lat, lng, units)
    \/ GetCurrentByLocation("p1", lat, lng, units)
    \/ GetWwirByLocation("p1", lat, lng, units)

SpecCoord == Init /\ [][NextCoord]_vars

(***************************************************************************)
(* SpecVariant: the GetForecast10ByLocation of src/unnamed/part_001, an    *)
(* earlier Client that builds the URL itself.  It formats each coordinate  *)
(* with format_float, escapes the text, and hands the resulting string to  *)
(* the %f verb of fmt.Sprintf.                                             *)
(***************************************************************************)
\* strconv.FormatFloat(f, 'f', -1, 32): the shortest decimal text, without
\* exponent, that reads back as the same float32.  For a multiple of 1/8 of
\* small magnitude, as all of VariantCoords are, that text is the exact
\* decimal expansion without trailing zeros, and without the point when no
\* fractional digit is left.
format_float(f) ==
  CASE f.kind = "nan" -> <<"N","a","N">>
    [] f.kind = "inf" -> IF f.neg THEN <<"-","I","n","f">> ELSE <<"+","I","n","f">>
    [] OTHER -> LET d == Digits(f.fr * 78125)
                    frac == StripZeros([i \in 1..(7 - Len(d)) |-> "0"] \o d)
                IN  (IF f.neg THEN <<"-">> ELSE <<>>) \o Digits(f.ip)
                    \o (IF frac = <<>> THEN <<>> ELSE <<".">> \o frac)

\* what fmt.Sprintf writes for the verb %f when the operand is the string s:
\* the verb does not apply to strings, and the text is %!f(string=s)
SprintfFOfString(s) ==
  <<"%","!","f","(","s","t","r","i","n","g","=">> \o s \o <<")">>

\* the url of part_001's GetForecast10ByLocation
Part001Url(key, lat, lng, units) ==
  Concat(<<UrlBase,
           SprintfFOfString(PathEscape(format_float(lat))), <<"/">>,
           SprintfFOfString(PathEscape(format_float(lng))), <<"/">>,
           <<"f","o","r","e","c","a","s","t","/","d","a","i","l","y","/","1","0","d","a","y">>,
           UrlJsonKey, PathEscape(key), UrlUnits,
           PathEscape(IF units = <<>> THEN <<"e">> ELSE units)>>)

\* part_001's GetForecast10ByLocation up to its call of doGetForecast10(url)
Part001GetForecast10ByLocation(p, lat, lng, units) ==
  /\ calls[p].pc = "idle"
  /\ calls' = [calls EXCEPT ![p] =
       [Idle EXCEPT !.pc = "construct", !.method = "part_001.GetForecast10ByLocation",
                    !.doget = "doGetForecast10",
                    !.lat = lat, !.lng = lng, !.units = units,
                    !.url = Part001Url(api_key, lat, lng, units)]]
  /\ UNCHANGED api_key

\* 40.5, -74.125, 0, -0, 7
VariantCoords ==
  {Fin(FALSE, 40, 64), Fin(TRUE, 74, 16), Fin(FALSE, 0, 0), Fin(TRUE, 0, 0),
   Fin(FALSE, 7, 0)}

NextVariant ==
  \E lat \in VariantCoords, lng \in VariantCoords, units \in Units :
    Part001GetForecast10ByLocation("p1", lat, lng, units)

SpecVariant == InitUrl /\ [][NextVariant]_vars

(***************************************************************************)
(* The claims.                                                             *)
(***************************************************************************)
EndsWith(s, suf) ==
  /\ Len(s) >= Len(suf)
  /\ SubSeq(s, Len(s) - Len(suf) + 1, Len(s)) = suf

Returned(c) == c.pc = "done"
Succeeded(c) == c.pc = "done" /\ c.rerr = <<>>

\* the unit blocks of a decoded CurrentResponse that are not nil
Populated(v) == {b \in Blocks : v.observation[b] # <<>>}

\* the unit blocks a response body carries: keys of its observation object
\* whose value is not null
BodyBlocks(body) ==
  IF /\ body.t = "obj"
     /\ "observation" \in DOMAIN body.m
     /\ body.m.observation.t = "obj"
  THEN {b \in Blocks : /\ b \in DOMAIN body.m.observation.m
                       /\ body.m.observation.m[b].t # "null"}
  ELSE {}

\* the blocks the upstream documents for a unit code
BlocksFor(units) ==
  CASE units = <<"e">> -> {"imperial"}
    [] units = <<"m">> -> {"metric"}
    [] units = <<"s">> -> {"metric_si"}
    [] units = <<"h">> -> {"uk_hybrid"}
    [] units = <<"a">> -> Blocks
    [] OTHER -> {}

\* C1 as stated: for GetCurrentByLocation the populated unit blocks of the
\* returned Observation are a function of the unit code: exactly the block of
\* e, m, s or h, and all four for a.
C1_BlocksByUnitCode ==
  \A p \in Procs :
    LET c == calls[p]
    IN  (/\ Succeeded(c)
         /\ c.method = "GetCurrentByLocation"
         /\ c.units \in {<<"e">>, <<"m">>, <<"s">>, <<"h">>, <<"a">>})
        => Populated(c.resp[1]) = BlocksFor(c.units)

\* C1 amended: the request of a GetCurrentByLocation call carries the unit
\* code, and the populated unit blocks of the returned Observation are exactly
\* the blocks the response body carries as non-null values; so they are the
\* blocks of the unit code whenever the upstream answers with those.
C1_BlocksFollowBody ==
  \A p \in Procs :
    LET c == calls[p]
    IN  (Succeeded(c) /\ c.method = "GetCurrentByLocation")
        => /\ EndsWith(c.url, <<"&","u","n","i","t","s","=">> \o
                              (IF c.units = <<>> THEN <<"e">> ELSE c.units))
           /\ Populated(c.resp[1]) = BodyBlocks(c.res[1].body)
           /\ BodyBlocks(c.res[1].body) = BlocksFor(c.units)
                => Populated(c.resp[1]) = BlocksFor(c.units)

C1_Witness ==
  \E p \in Procs :
    /\ Succeeded(calls[p])
    /\ calls[p].method = "GetCurrentByLocation"
    /\ calls[p].units = <<"e">>
    /\ BodyBlocks(calls[p].res[1].body) = {"imperial"}
    /\ Populated(calls[p].resp[1]) = {"imperial"}

\* the endpoint fragment each public method is documented to request
ExpectedFragment(method) ==
  CASE method = "GetCurrentByLocation" ->
         <<"o","b","s","e","r","v","a","t","i","o","n","s","/","c","u","r","r","e","n","t">>
    [] method = "GetWwirByLocation" ->
         <<"f","o","r","e","c","a","s","t","/","w","w","i","r">>
    [] method = "GetForecast10ByLocation" ->
         <<"f","o","r","e","c","a","s","t","/","d","a","i","l","y","/","1","0","d","a","y">>
    [] method = "GetHourlyForecast240ByLocation" ->
         <<"f","o","r","e","c","a","s","t","/","h","o","u","r","l","y","/",
           "2","4","0","h","o","u","r">>

\* C2: a call with the empty unit code requests exactly the URL of the same
\* call with unit code e; a non-empty unit code is the one sent (escaped for
\* the URL), never replaced by the default.
C2_EmptyUnitsIsE ==
  \A p \in Procs :
    LET c == calls[p]
    IN  c.pc # "idle" =>
          /\ c.units = <<>> =>
               c.url = make_api_url(api_key, c.lat, c.lng,
                                    ExpectedFragment(c.method), <<"e">>)
          /\ c.units # <<>> =>
               /\ EndsWith(c.url, <<"&","u","n","i","t","s","=">> \o PathEscape(c.units))
               /\ c.units # <<"e">> =>
                    c.url # make_api_url(api_key, c.lat, c.lng,
                                         ExpectedFragment(c.method), <<"e">>)

C2_Witness ==
  \E p \in Procs :
    /\ calls[p].pc = "construct"
    /\ calls[p].units = <<>>
    /\ EndsWith(calls[p].url, <<"&","u","n","i","t","s","=","e">>)

\* C3 as stated: a call with the empty unit code behaves like a call with
\* unit code a: the request asks for all unit systems and a current-conditions
\* call populates all four unit blocks.
C3_EmptyUnitsIsAll ==
  \A p \in Procs :
    LET c == calls[p]
    IN  (c.pc # "idle" /\ c.units = <<>>) =>
          /\ c.url = make_api_url(api_key, c.lat, c.lng,
                                  ExpectedFragment(c.method), <<"a">>)
          /\ (Succeeded(c) /\ c.method = "GetCurrentByLocation")
               => Populated(c.resp[1]) = Blocks

\* C3 amended: a call with the empty unit code behaves like a call with unit
\* code e: the request that goes out asks for units=e, not for all unit
\* systems, and a current-conditions call populates the blocks the body
\* carries.
C3_EmptyUnitsAsksForE ==
  \A p \in Procs :
    LET c == calls[p]
    IN  (c.sent > 0 /\ c.units = <<>>) =>
          /\ EndsWith(c.url, <<"&","u","n","i","t","s","=","e">>)
          /\ ~EndsWith(c.url, <<"&","u","n","i","t","s","=","a">>)
          /\ (Succeeded(c) /\ c.method = "GetCurrentByLocation")
               => Populated(c.resp[1]) = BodyBlocks(c.res[1].body)

C3_Witness ==
  \E p \in Procs :
    /\ Succeeded(calls[p])
    /\ calls[p].method = "GetCurrentByLocation"
    /\ calls[p].units = <<>>
    /\ calls[p].sent = 1
    /\ Populated(calls[p].resp[1]) = {"imperial"}

\* C4: each public method requests
\* https://api.weather.com/v1/geocode/{lat}/{lng}/{endpoint}.json?apiKey={key}&units={code}
\* with its own endpoint fragment, the client's key and the call's latitude,
\* longitude and unit code, in that order.
C4_UrlTemplate ==
  \A p \in Procs :
    LET c == calls[p]
    IN  c.pc # "idle" =>
          c.url = <<"h","t","t","p","s",":","/","/">>
                  \o <<"a","p","i",".","w","e","a","t","h","e","r",".","c","o","m">>
                  \o <<"/","v","1","/","g","e","o","c","o","d","e","/">>
                  \o SprintfF(c.lat) \o <<"/">> \o SprintfF(c.lng) \o <<"/">>
                  \o ExpectedFragment(c.method)
                  \o <<".","j","s","o","n","?","a","p","i","K","e","y","=">>
                  \o PathEscape(api_key)
                  \o <<"&","u","n","i","t","s","=">>
                  \o PathEscape(IF c.units = <<>> THEN <<"e">> ELSE c.units)

C4_Witness ==
  \E p \in Procs :
    /\ calls[p].pc = "construct"
    /\ calls[p].method = "GetWwirByLocation"
    /\ api_key = <<"k">>
    /\ calls[p].units = <<"m">>
    /\ calls[p].lat # calls[p].lng
    /\ EndsWith(calls[p].url,
         <<"/","f","o","r","e","c","a","s","t","/","w","w","i","r",
           ".","j","s","o","n","?","a","p","i","K","e","y","=","k",
           "&","u","n","i","t","s","=","m">>)

RECURSIVE Split(_, _)
\* the pieces of s between the occurrences of the character sep
Split(s, sep) ==
  IF IndexOf(s, sep) = 0 THEN <<s>>
  ELSE <<Before(s, sep)>> \o Split(After(s, sep), sep)

\* the character a percent-escape stands for
CharOf(h1, h2) ==
  CHOOSE ch \in {" ", "#", "$", "%", "&", "+", ",", "/", ":", ";", "=", "?", "@"} :
    HexOf(ch) = <<h1, h2>>

RECURSIVE QueryUnescape(_)
\* the decoding of a query component: "+" is a space, %XX is the byte XX
QueryUnescape(s) ==
  IF s = <<>> THEN <<>>
  ELSE IF Head(s) = "+" THEN <<" ">> \o QueryUnescape(Tail(s))
  ELSE IF Head(s) = "%" /\ Len(s) >= 3
       THEN <<CharOf(s[2], s[3])>> \o QueryUnescape(SubSeq(s, 4, Len(s)))
  ELSE <<Head(s)>> \o QueryUnescape(Tail(s))

\* the parameters of a query string, in order: the pieces between "&" that
\* are not empty, each cut at its first "=" and decoded
ParseQuery(q) ==
  LET pairs == SelectSeq(Split(q, "&"), LAMBDA x : x # <<>>)
  IN  [i \in 1..Len(pairs) |->
         [name |-> QueryUnescape(Before(pairs[i], "=")),
          value |-> QueryUnescape(After(pairs[i], "="))]]

\* C5: the key and the unit code are escaped so that they are safe in the
\* URL: the query string of the built URL parses to exactly the two
\* parameters apiKey and units, whose decoded values are the key and the unit
\* code given, and scheme, host and path do not depend on them.
C5_QueryParsesBack ==
  \A p \in Procs :
    LET c == calls[p]
        u == Before(c.url, "#")
    IN  c.pc # "idle" =>
          /\ ParseQuery(After(u, "?")) =
               <<[name |-> <<"a","p","i","K","e","y">>, value |-> api_key],
                 [name |-> <<"u","n","i","t","s">>,
                  value |-> IF c.units = <<>> THEN <<"e">> ELSE c.units]>>
          /\ Before(u, "?") =
               <<"h","t","t","p","s",":","/","/">>
               \o <<"a","p","i",".","w","e","a","t","h","e","r",".","c","o","m">>
               \o <<"/","v","1","/","g","e","o","c","o","d","e","/">>
               \o SprintfF(c.lat) \o <<"/">> \o SprintfF(c.lng) \o <<"/">>
               \o ExpectedFragment(c.method) \o <<".","j","s","o","n">>

\* C6 as stated: every call of a public method performs exactly one HTTP GET
\* round trip before it returns: never a second request, whatever the outcome
\* of the first, and none only when the construction of the request fails.
C6_OneRoundTrip ==
  \A p \in Procs :
    LET c == calls[p]
    IN  /\ c.gets <= 1
        /\ c.pc \in {"ret", "done"} =>
             c.gets = (IF c.stage = "construct" THEN 0 ELSE 1)

\* C6 amended: every call of a public method enters the transport
\* (http_client.Do) exactly once before it returns, never again whatever the
\* outcome, and not at all only when the construction of the request fails;
\* GET round trips beyond the first happen only inside that one Do, where the
\* default http.Client follows redirects, 10 requests at most.
C6_OneDo ==
  \A p \in Procs :
    LET c == calls[p]
    IN  /\ c.sent <= 1
        /\ c.pc \in {"wait", "decode"} => c.sent = 1
        /\ c.pc \in {"ret", "done"} =>
             c.sent = (IF c.stage = "construct" THEN 0 ELSE 1)
        /\ c.sent = 0 => c.gets = 0
        /\ c.sent = 1 => c.gets \in 1..10

C6_Witness ==
  \E p \in Procs :
    /\ Returned(calls[p])
    /\ calls[p].stage = "transport"
    /\ calls[p].sent = 1
    /\ calls[p].gets = 1

\* the prefix documented for each failing stage
StagePrefix(stage) ==
  CASE stage = "construct" ->
         <<"C","o","u","l","d"," ","n","o","t"," ","s","e","n","d"," ",
           "r","e","q","u","e","s","t",":"," ">>
    [] stage = "transport" ->
         <<"C","o","u","l","d"," ","n","o","t"," ","r","e","a","d"," ",
           "r","e","s","p","o","n","s","e",":"," ">>
    [] stage = "decode" ->
         <<"C","o","u","l","d"," ","n","o","t"," ","d","e","c","o","d","e",":"," ">>

Stages == {"construct", "transport", "decode"}

\* the underlying causes of a stage
StageCauses(stage) ==
  CASE stage = "construct" -> {ErrParse}
    [] stage = "transport" -> TransportCauses \cup {ErrRedirects}
    [] stage = "decode" -> {ErrEOF, ErrSyntax, ErrType}

\* C7: the failing stage is recoverable from the returned error: the error is
\* the prefix of the stage that failed followed by the underlying cause, and
\* it starts with the prefix of no other stage.
C7_ErrorNamesStage ==
  \A p \in Procs :
    LET c == calls[p]
    IN  c.pc \in {"ret", "done"} =>
          /\ c.stage = "none" <=> c.err = <<>>
          /\ c.pc = "done" => c.rerr = c.err
          /\ c.stage # "none" =>
               /\ \E cause \in StageCauses(c.stage) :
                    c.err = <<StagePrefix(c.stage) \o cause>>
               /\ \A s \in Stages :
                    StartsWith(c.err[1], StagePrefix(s)) <=> s = c.stage

C7_Witness ==
  \E p \in Procs :
    /\ Returned(calls[p])
    /\ calls[p].stage = "transport"
    /\ StartsWith(calls[p].rerr[1], StagePrefix("transport"))
    /\ ~StartsWith(calls[p].rerr[1], StagePrefix("decode"))

\* C8: a call returns either a response and no error or no response and an
\* error; the error case is the case that a stage failed, and then nothing of
\* a partially decoded payload is returned.
C8_ResponseXorError ==
  \A p \in Procs :
    LET c == calls[p]
    IN  Returned(c) =>
          /\ (c.resp = <<>>) # (c.rerr = <<>>)
          /\ c.rerr # <<>> <=> c.stage \in Stages
          /\ c.rerr = <<>> => c.resp = c.payload

C8_Witness ==
  \E p \in Procs :
    /\ Returned(calls[p])
    /\ calls[p].stage = "decode"
    /\ calls[p].payload # <<Zero(PayloadType(calls[p].doget))>>
    /\ calls[p].resp = <<>>
    /\ calls[p].rerr # <<>>

\* the status_code a body carries in its metadata, 0 when it carries none
BodyStatusCode(body) ==
  IF /\ body.t = "obj"
     /\ "metadata" \in DOMAIN body.m
     /\ body.m.metadata.t = "obj"
     /\ "status_code" \in DOMAIN body.m.metadata.m
     /\ body.m.metadata.m.status_code.t = "num"
  THEN body.m.metadata.m.status_code.n
  ELSE 0

\* C9: the HTTP status never influences the outcome: whatever the status, a
\* body that decodes yields a result and one that does not yields a decode
\* error, and the result's status_code is the one of the body.
C9_StatusIgnored ==
  \A p \in Procs :
    LET c == calls[p]
    IN  (c.pc \in {"ret", "done"} /\ c.res # <<>>) =>
          LET d == Decode(PayloadType(c.doget), c.res[1].body)
          IN  /\ c.err = <<>> <=> d.err = <<>>
              /\ c.err # <<>> => c.stage = "decode"
              /\ c.err = <<>> =>
                   /\ c.payload = <<d.v>>
                   /\ c.payload[1].metadata.status_code = BodyStatusCode(c.res[1].body)

C9_Witness ==
  \E p \in Procs :
    /\ Succeeded(calls[p])
    /\ calls[p].res[1].status = 500
    /\ calls[p].resp[1].metadata.status_code = 200

RECURSIVE StripUnknown(_, _)
\* the JSON value j without the object keys that type T has no field for, at
\* every depth
StripUnknown(T, j) ==
  CASE T.k = "struct" /\ j.t = "obj" ->
         JObj([f \in DOMAIN j.m \cap DOMAIN T.f |-> StripUnknown(T.f[f], j.m[f])])
    [] T.k = "ptr" -> StripUnknown(T.e, j)
    [] T.k = "slice" /\ j.t = "arr" ->
         JArr([i \in 1..Len(j.a) |-> StripUnknown(T.e, j.a[i])])
    [] OTHER -> j

\* whether object j gives field f a value other than null
Gives(j, f) == j.t = "obj" /\ f \in DOMAIN j.m /\ j.m[f].t # "null"

\* the member f of object j, null when j has none
Member(j, f) == IF j.t = "obj" /\ f \in DOMAIN j.m THEN j.m[f] ELSE JNull

\* C10: decoding is field by field and tolerant: a body with keys the schema
\* does not know decodes to what the body without them decodes to; a scalar
\* the body does not give is zero and a pointer it does not give, or gives as
\* null, is nil; the body {} decodes, to the all-zero response.
C10_TolerantDecode ==
  \A p \in Procs :
    LET c == calls[p]
    IN  (c.pc \in {"ret", "done"} /\ c.res # <<>>
         /\ c.res[1].body.t \in {"obj", "null"}) =>
          LET T == PayloadType(c.doget)
              body == c.res[1].body
              d == Decode(T, StripUnknown(T, body))
              v == c.payload[1]
              meta == Member(body, "metadata")
          IN  /\ c.payload = <<d.v>>
              /\ c.err = <<>> <=> d.err = <<>>
              /\ body = JObj(NoFields) =>
                   /\ c.err = <<>>
                   /\ v.metadata = [units |-> "", status_code |-> 0]
                   /\ c.doget = "doGetCurrent" =>
                        /\ v.observation.class = ""
                        /\ Populated(v) = {}
                   /\ c.doget = "doGetWwir" =>
                        v.forecast = [class |-> "", precip_time_iso |-> <<>>]
                   /\ c.doget \in {"doGetForecast10", "doGetHourlyForecast"} =>
                        v.forecasts = [isnil |-> TRUE, elems |-> <<>>]
              /\ c.err = <<>> =>
                   /\ ~Gives(meta, "status_code") => v.metadata.status_code = 0
                   /\ ~Gives(meta, "units") => v.metadata.units = ""
                   /\ c.doget = "doGetCurrent" =>
                        \A b \in Blocks :
                          ~Gives(Member(body, "observation"), b)
                             => v.observation[b] = <<>>
                   /\ c.doget = "doGetForecast10" =>
                        \A i \in 1..Len(v.forecasts.elems) :
                          LET e == Member(body, "forecasts").a[i]
                          IN  /\ ~Gives(e, "max_temp") => v.forecasts.elems[i].max_temp = <<>>
                              /\ ~Gives(e, "day") => v.forecasts.elems[i].day = <<>>
                              /\ ~Gives(e, "min_temp") => v.forecasts.elems[i].min_temp = 0

C10_Witness ==
  \E p \in Procs :
    LET c == calls[p]
    IN  /\ Succeeded(c)
        /\ c.doget = "doGetForecast10"
        /\ c.res[1].body # StripUnknown(Forecast10Response, c.res[1].body)
        /\ Len(c.resp[1].forecasts.elems) = 2
        /\ c.resp[1].forecasts.elems[1].day = <<>>
        /\ c.resp[1].forecasts.elems[2].day # <<>>


\* the payload a call holds once its decode stage has run
Decoded(c) == c.pc \in {"ret", "done"} /\ c.res # <<>>

\* C11: for each of the four response schemas, encoding a decoded response
\* value to JSON and decoding the text again gives an equal value, without
\* error: nil and non-nil optional fields (Day, MaxTemp, Gust, the unit blocks)
\* stay as they were, and Forecasts keeps its order, its length and whether it
\* is nil.
C11_RoundTrip ==
  \A p \in Procs :
    Decoded(calls[p]) =>
      LET T == PayloadType(calls[p].doget)
          v == calls[p].payload[1]
      IN  Decode(T, Marshal(T, v)) = [v |-> v, err |-> <<>>]

\* a 10-day forecast of two elements came back, the first without Day and
\* MaxTemp, the second with both
C11_Witness ==
  \E p \in Procs :
    /\ Succeeded(calls[p])
    /\ calls[p].doget = "doGetForecast10"
    /\ LET e == calls[p].resp[1].forecasts.elems
       IN  /\ Len(e) = 2
           /\ e[1].day = <<>> /\ e[1].max_temp = <<>>
           /\ e[2].day # <<>> /\ e[2].max_temp # <<>>
           /\ e[1].num # e[2].num


FodLongRangeDaily == "fod_long_range_daily"

\* the forecasts array of a response body, empty when the body has none
BodyForecasts(body) ==
  IF Member(body, "forecasts").t = "arr" THEN Member(body, "forecasts").a ELSE <<>>

\* the string a body object gives under key f, "" when it gives none
BodyString(j, f) == IF Member(j, f).t = "str" THEN Member(j, f).s ELSE ""

\* C12 as the specification states it: a 10-day forecast call that returns
\* without error returns a non-empty Forecasts sequence whose first element
\* has class fod_long_range_daily.
C12_ForecastsNonEmpty ==
  \A p \in Procs :
    LET c == calls[p]
    IN  (Succeeded(c) /\ c.method = "GetForecast10ByLocation")
        => /\ c.resp[1].forecasts.elems # <<>>
           /\ c.resp[1].forecasts.elems[1].class = FodLongRangeDaily

\* C12: a 10-day forecast call that returns without error returns the
\* elements of the body's forecasts array, as many and in the body's order,
\* each a Forecast10 with the class the body gives it; so Forecasts is
\* non-empty with first class fod_long_range_daily exactly when the body's
\* array is, and is empty when the body has no forecasts array.
C12_ForecastsFollowBody ==
  \A p \in Procs :
    LET c == calls[p]
    IN  (Succeeded(c) /\ c.method = "GetForecast10ByLocation")
        => LET e == c.resp[1].forecasts.elems
               a == BodyForecasts(c.res[1].body)
           IN  /\ Len(e) = Len(a)
               /\ \A i \in 1..Len(a) :
                    /\ DOMAIN e[i] = DOMAIN Forecast10.f
                    /\ e[i].class = BodyString(a[i], "class")
                    /\ Member(a[i], "num").t = "num" => e[i].num = a[i].m.num.n
               /\ (a # <<>> /\ BodyString(a[1], "class") = FodLongRangeDaily)
                    <=> (e # <<>> /\ e[1].class = FodLongRangeDaily)

\* two forecasts came back in the body's order: the body lists number 2
\* before number 1, and so does the response
C12_Witness ==
  \E p \in Procs :
    LET c == calls[p]
    IN  /\ Succeeded(c) /\ c.method = "GetForecast10ByLocation"
        /\ Len(c.resp[1].forecasts.elems) = 2
        /\ Len(BodyForecasts(c.res[1].body)) = 2
        /\ c.resp[1].forecasts.elems[1].num = 2
        /\ c.resp[1].forecasts.elems[2].num = 1
        /\ c.resp[1].forecasts.elems[1].class = FodLongRangeDaily


\* what a call must hold, by the Client's key and the call's own arguments
\* and own response alone
OwnUrl(c) == c.url = make_api_url(api_key, c.lat, c.lng, ExpectedFragment(c.method), c.units)

OwnResult(c) ==
  (Returned(c) /\ c.res # <<>>) =>
    LET r == Decode(PayloadType(c.doget), c.res[1].body)
    IN  /\ c.rerr = <<>> <=> r.err = <<>>
        /\ c.rerr = <<>> => c.resp = <<r.v>>
        /\ c.rerr # <<>> => c.resp = <<>>

\* C13: the Client has no state that a call changes: api_key stays what
\* NewClient stored; under every interleaving of two callers' steps a step of
\* one call leaves the other call untouched, each call's URL is built from the
\* key and its own arguments, and each call returns the decoding of the
\* response to its own request.
C13_CallsIndependent ==
  [][/\ api_key' = api_key
     /\ \A p \in Procs :
          calls'[p] # calls[p] =>
            /\ \A q \in Procs \ {p} : calls'[q] = calls[q]
            /\ calls'[p].pc # "idle" => (OwnUrl(calls[p]))' /\ (OwnResult(calls[p]))']_vars

\* both callers hold results at once, of different methods, one an error
C13_Witness ==
  /\ Succeeded(calls["p1"]) /\ Returned(calls["p2"])
  /\ calls["p2"].rerr # <<>>
  /\ calls["p1"].res # <<>> /\ calls["p2"].res # <<>>
  /\ calls["p1"].method # calls["p2"].method
  /\ calls["p1"].lat # calls["p2"].lat
  /\ calls["p1"].units # calls["p2"].units


\* the value of a decimal digit character, and of a sequence of them
DigitVal(ch) == CHOOSE d \in 0..9 : DigitChar(d) = ch

RECURSIVE DecimalVal(_)
DecimalVal(s) ==
  IF s = <<>> THEN 0 ELSE 10 * DecimalVal(SubSeq(s, 1, Len(s) - 1)) + DigitVal(s[Len(s)])

\* a text without its leading minus sign
Unsigned(s) == IF s # <<>> /\ s[1] = "-" THEN Tail(s) ELSE s

\* fixed-point decimal text: an optional minus sign, one or more integer
\* digits, a point and exactly six fractional digits; nothing else, so no
\* exponent
IsFixed6(s) ==
  LET t == Unsigned(s)
      dot == IndexOf(t, ".")
  IN  /\ dot >= 2
      /\ Len(t) = dot + 6
      /\ \A i \in (1..Len(t)) \ {dot} : t[i] \in Digit

\* the fixed-point text s is the value f to six decimal places: the sign and
\* the integer digits of f, and a fraction within half a millionth of f's
Denotes(s, f) ==
  LET t == Unsigned(s)
      n6 == DecimalVal(After(t, "."))
  IN  /\ IsFixed6(s)
      /\ (s[1] = "-") <=> f.neg
      /\ Before(t, ".") = Digits(f.ip)
      /\ 10 * n6 - f.fr * 78125 \in -5..5

\* the path segments of a URL: those of a built URL are "https:", "", the
\* host, "v1", "geocode", the latitude, the longitude, and the fragment's
PathSegments(url) == Split(Before(url, "?"), "/")

\* C14 as the specification states it: for every coordinate value, of any
\* magnitude or sign, the latitude and longitude segments of the URL are
\* fixed-point decimal text with six fractional digits, latitude first.
C14_AlwaysFixedPoint ==
  \A p \in Procs :
    LET c == calls[p]
    IN  c.pc # "idle" => /\ IsFixed6(PathSegments(c.url)[6])
                         /\ IsFixed6(PathSegments(c.url)[7])

\* C14: for every finite coordinate value, of any magnitude or sign, the
\* URL's latitude segment (the first after geocode) and longitude segment (the
\* second) are fixed-point decimal text denoting the value to six decimal
\* places: optional minus sign, integer digits, point, exactly six fractional
\* digits, no exponent.  A coordinate that is NaN or infinite is written as
\* NaN, +Inf or -Inf.
C14_FiniteFixedPoint ==
  \A p \in Procs :
    LET c == calls[p]
        seg == PathSegments(c.url)
        NonFinite(s, f) ==
          s = CASE f.kind = "nan" -> <<"N","a","N">>
                [] f.kind = "inf" /\ f.neg -> <<"-","I","n","f">>
                [] OTHER -> <<"+","I","n","f">>
    IN  c.pc # "idle" =>
          /\ seg[5] = <<"g","e","o","c","o","d","e">>
          /\ IF c.lat.kind = "fin" THEN Denotes(seg[6], c.lat) ELSE NonFinite(seg[6], c.lat)
          /\ IF c.lng.kind = "fin" THEN Denotes(seg[7], c.lng) ELSE NonFinite(seg[7], c.lng)

\* a URL was built for a large positive latitude with a fraction and a
\* negative longitude of ten integer digits
C14_Witness ==
  \E p \in Procs :
    /\ calls[p].pc # "idle"
    /\ calls[p].lat = Fin(FALSE, 123456789, 64)
    /\ calls[p].lng = Fin(TRUE, 2000000000, 0)
    /\ PathSegments(calls[p].url)[6] =
         <<"1","2","3","4","5","6","7","8","9",".","5","0","0","0","0","0">>
    /\ PathSegments(calls[p].url)[7] =
         <<"-","2","0","0","0","0","0","0","0","0","0",".","0","0","0","0","0","0">>


\* the moves of a call from one position to the next
StageMoves ==
  {<<"idle", "construct">>, <<"construct", "send">>, <<"construct", "ret">>,
   <<"send", "wait">>, <<"wait", "wait">>, <<"wait", "ret">>, <<"wait", "decode">>,
   <<"decode", "ret">>, <<"ret", "done">>, <<"done", "idle">>}

\* a step that takes a call from record c to record d keeps the stages in order
InStageOrder(c, d) ==
  /\ <<c.pc, d.pc>> \in StageMoves
  \* the request goes out only after construction succeeded
  /\ d.sent # c.sent => (c.pc = "send" /\ c.stage = "none") \/ d.pc = "idle"
  \* a response is there only once the transport returned it
  /\ d.res # c.res => (c.pc = "wait" /\ d.pc = "decode") \/ d.pc = "idle"
  \* the payload is declared at the call's start and written by the decode stage only
  /\ d.payload # c.payload =>
       \/ c.pc = "idle" /\ d.payload = <<Zero(PayloadType(d.doget))>>
       \/ c.pc = "decode" /\ d.pc = "ret"
       \/ d.pc = "idle"
  \* a stage that fails ends the call: nothing of a later stage has happened,
  \* and the only move left is the return
  /\ (d.stage # c.stage /\ d.stage # "none") =>
       /\ d.pc = "ret"
       /\ \/ d.stage = "construct" /\ c.pc = "construct"
             /\ d.sent = 0 /\ d.gets = 0 /\ d.res = <<>>
             /\ d.payload = <<Zero(PayloadType(d.doget))>>
          \/ d.stage = "transport" /\ c.pc = "wait"
             /\ d.res = <<>> /\ d.payload = <<Zero(PayloadType(d.doget))>>
          \/ d.stage = "decode" /\ c.pc = "decode" /\ d.res # <<>>
  /\ (c.pc = "ret" /\ d.pc = "done") => (d.rerr # <<>> <=> c.stage # "none")

\* C15: within one call the stages run strictly in the order construct,
\* transport, decode; a stage that fails ends the call, so no request goes out
\* when construction fails and nothing is decoded when the transport fails;
\* the payload is written by the decode stage alone.
C15_StagesInOrder ==
  [][\A p \in Procs :
       calls'[p] # calls[p] => InStageOrder(calls[p], calls'[p])]_vars

\* a call ended by a transport failure: sent, nothing received, nothing decoded
C15_Witness ==
  \E p \in Procs :
    /\ Returned(calls[p])
    /\ calls[p].stage = "transport"
    /\ calls[p].sent = 1
    /\ calls[p].res = <<>>
    /\ calls[p].payload = <<Zero(PayloadType(calls[p].doget))>>
    /\ calls[p].rerr # <<>>


\* C16: when the transport returns a response, its body is open while the
\* decode stage runs and has been closed exactly once when the call returns,
\* whether the decoding succeeded or failed; when construction or the
\* transport fails there is no body and none is closed; so no call, and no
\* sequence of calls, leaves a body open.
C16_BodyClosedOnce ==
  \A p \in Procs :
    LET c == calls[p]
    IN  /\ c.pc \in {"idle", "construct", "send", "wait"} =>
             c.res = <<>> /\ ~c.open /\ c.closes = 0
        /\ c.pc = "decode" => c.res # <<>> /\ c.open /\ c.closes = 0
        /\ c.pc \in {"ret", "done"} =>
             /\ ~c.open
             /\ c.stage \in {"none", "decode"} => c.res # <<>> /\ c.closes = 1
             /\ c.stage \in {"construct", "transport"} => c.res = <<>> /\ c.closes = 0

\* a call whose decoding failed has returned, its body closed once
C16_Witness ==
  \E p \in Procs :
    /\ Returned(calls[p])
    /\ calls[p].stage = "decode"
    /\ calls[p].res # <<>>
    /\ ~calls[p].open
    /\ calls[p].closes = 1


\* C17: for every key, coordinates and unit code, the GetForecast10ByLocation
\* of part_001 requests the URL that weather.go's make_api_url builds for the
\* fragment forecast/daily/10day.
C17_VariantSameUrl ==
  \A p \in Procs :
    LET c == calls[p]
    IN  c.method = "part_001.GetForecast10ByLocation" =>
          c.url = make_api_url(api_key, c.lat, c.lng,
                               ExpectedFragment("GetForecast10ByLocation"), c.units)

====
